---- MODULE Spec2Model ----
(***************************************************************************)
(* State-machine model of the concurrent crawler in src/src/main.rs:       *)
(* main seeds a bounded mpsc channel and spawns a pool of workers; each    *)
(* worker loops { lock the receiver; recv; process_url }.  process_url     *)
(* checks the visited set, fetches, marks the URL visited on success and   *)
(* sends every extracted in-domain link that is not yet visited.           *)
(*                                                                         *)
(* A URL string is modelled as a record [dom, path]; the path "" is the    *)
(* string without a trailing slash ("https://www.bilibili.com"), which     *)
(* Url::parse / to_string turn into path "/".                              *)
(***************************************************************************)
EXTENDS Integers, Sequences, FiniteSets, TLC

\* ---------------------------------------------------------------- bounds
\* Largest pool size and channel capacity explored (main.rs uses 5 and 100).
MaxWorkers == 2
MaxCapacity == 2

\* ------------------------------------------------------------ URL strings
SeedDomain == "www.bilibili.com"
SubDomain == "sub.www.bilibili.com"
OtherDomain == "other.com"
IpHost == "10.0.0.1"

Hosts == {SeedDomain, SubDomain, OtherDomain, IpHost}
Paths == {"", "/", "/a", "/b"}

\* Every URL string the model can form.
Urls == [dom : Hosts, path : Paths]

\* let base_url = "https://www.bilibili.com";  (no trailing slash)
base_url == [dom |-> SeedDomain, path |-> ""]

\* The value of a worker's url local outside process_url.
NoUrl == [dom |-> "", path |-> ""]

\* Option<&str> as a record.
None == [some |-> FALSE, val |-> ""]
Some(v) == [some |-> TRUE, val |-> v]

\* Url::parse: an http(s) URL with an empty path gets the path "/".
UrlParse(s) == [dom |-> s.dom, path |-> IF s.path = "" THEN "/" ELSE s.path]

\* Url::to_string of a parsed URL.
UrlToString(u) == [dom |-> u.dom, path |-> u.path]

\* Url::domain(): None when the host is an IP address.
UrlDomain(u) == IF u.dom = IpHost THEN None ELSE Some(u.dom)

\* Crawler::new: base_domain = Url::parse(base_url).domain().unwrap_or("")
base_domain ==
  LET d == UrlDomain(UrlParse(base_url)) IN IF d.some THEN d.val ELSE ""

\* ---------------------------------------------------------------- hrefs
\* The href attribute of an <a>: an absolute URL, a path relative to the
\* page, or text that Url::join rejects.
AbsHref(d, p) == [kind |-> "abs", dom |-> d, path |-> p]
RelHref(p) == [kind |-> "rel", dom |-> "", path |-> p]
BadHref == [kind |-> "bad", dom |-> "", path |-> ""]

\* base.join(href).ok(): whether the join succeeds.
JoinOk(base, href) == href.kind # "bad"

\* base.join(href): the resolved URL.
UrlJoin(base, href) ==
  IF href.kind = "abs"
    THEN UrlParse([dom |-> href.dom, path |-> href.path])
    ELSE [dom |-> base.dom, path |-> href.path]

\* ------------------------------------------------------------- the site
\* The a[href] elements of each page, in document order.
HomePage ==
  << RelHref("/a"), AbsHref(SubDomain, "/a"), AbsHref(SeedDomain, "/a"),
     BadHref, AbsHref(OtherDomain, "/"), RelHref("/b"), AbsHref(IpHost, "/") >>
PageA == << AbsHref(SeedDomain, ""), RelHref("/b") >>
EmptyPage == << >>

\* The pages answered with a status that is not a success (a 404).
NotFound == {[dom |-> SeedDomain, path |-> "/b"]}

\* The document served for a request.
Document(u) ==
  IF u.dom = SeedDomain /\ u.path = "/" THEN HomePage
  ELSE IF u.dom = SeedDomain /\ u.path = "/a" THEN PageA
  ELSE EmptyPage

\* ---------------------------------------------------------------- state
VARIABLES
  nWorkers,     \* let workers = 5: the pool size of this run
  capacity,     \* mpsc::channel::<String>(100): the capacity of this run
  mainPc,       \* position of main: "send_seed", "spawn", "sleep"
  spawned,      \* number of workers main has spawned so far
  queue,        \* the channel's buffer, oldest entry first
  closed,       \* whether the channel is closed (every Sender dropped)
  rxLock,       \* holder of the Mutex around the Receiver, 0 when free
  visited,      \* the HashSet<String> behind Crawler::visited
  vLock,        \* holder of the Mutex around visited, 0 when free
  pc,           \* position of each worker task
  url,          \* each worker's url argument of process_url
  html,         \* each worker's fetched body, a sequence of hrefs
  links,        \* each worker's links not yet iterated in the for loop
  fetchDone,    \* history: number of fetch calls that returned, per URL
  failed,       \* history: URLs for which some fetch returned None
  succeeded,    \* history: URLs for which some fetch returned Some(html)
  markedFirst,  \* history: mark_visited calls that returned true, per URL
  markedAgain,  \* history: mark_visited calls that returned false, per URL
  enqueued      \* history: URLs sent by process_url

vars == << nWorkers, capacity, mainPc, spawned, queue, closed, rxLock, visited,
           vLock, pc, url, html, links, fetchDone, failed, succeeded,
           markedFirst, markedAgain, enqueued >>

Workers == 1..MaxWorkers

\* ------------------------------------------------------ pure operations
\* Mutant: a suffix match, which admits subdomains of the seed's domain.
DomainMatchesSuffix(resolved) == resolved.dom \in {SeedDomain, SubDomain}

\* extract_links, line 64: the admission filter on a resolved URL.
DomainMatches(resolved) == UrlDomain(resolved) = Some(base_domain)

\* Mutant: the links collected last element first.
ExtractLinksReversed(doc, current_url) ==
  LET base == UrlParse(current_url)
      kept == SelectSeq(doc, LAMBDA h :
                JoinOk(base, h) /\ DomainMatches(UrlJoin(base, h)))
  IN  [i \in 1..Len(kept) |->
         UrlToString(UrlJoin(base, kept[Len(kept) + 1 - i]))]

\* extract_links: the filter_map over the a[href] elements, collected.
ExtractLinks(doc, current_url) ==
  LET base == UrlParse(current_url)
      kept == SelectSeq(doc, LAMBDA h :
                JoinOk(base, h) /\ DomainMatches(UrlJoin(base, h)))
  IN  [i \in 1..Len(kept) |-> UrlToString(UrlJoin(base, kept[i]))]

\* fetch: what one GET of the URL can return.  A transport error (None) is
\* possible for every request; Some(body) needs a success status.
FetchOutcomes(u) ==
  {[some |-> FALSE, val |-> << >>]} \cup
  (IF UrlParse(u) \in NotFound THEN {}
   ELSE {[some |-> TRUE, val |-> Document(UrlParse(u))]})

\* Mutant: an insert that replaces the set's contents.
SetInsertReplacing(set, u) == {u}

\* Mutant: an insert that reports "newly inserted" whatever the set holds.
InsertResultAlways(set, u) == TRUE

\* Mutant: a membership test that never finds the URL.
SetContainsNever(set, u) == FALSE

\* HashSet::contains and HashSet::insert (insert returns "newly inserted").
SetContains(set, u) == u \in set
SetInsert(set, u) == set \cup {u}
InsertResult(set, u) == u \notin set

\* Mutant: a channel that admits one message more than its capacity.
HasRoomOffByOne(q, cap) == Len(q) <= cap

\* The bounded channel has room for one more message.
HasRoom(q, cap) == Len(q) < cap

\* Where a worker goes after the for loop's current link is done with.
AfterLink(rest) == IF rest = << >> THEN "rx_lock" ELSE "link_is_visited"

\* ----------------------------------------------------------------- Init
Init ==
  /\ nWorkers \in 1..MaxWorkers
  /\ capacity \in 1..MaxCapacity
  /\ mainPc = "send_seed"
  /\ spawned = 0
  /\ queue = << >>
  /\ closed = FALSE
  /\ rxLock = 0
  /\ visited = {}
  /\ vLock = 0
  /\ pc = [w \in Workers |-> "unspawned"]
  /\ url = [w \in Workers |-> NoUrl]
  /\ html = [w \in Workers |-> << >>]
  /\ links = [w \in Workers |-> << >>]
  /\ fetchDone = [u \in Urls |-> 0]
  /\ failed = {}
  /\ succeeded = {}
  /\ markedFirst = [u \in Urls |-> 0]
  /\ markedAgain = [u \in Urls |-> 0]
  /\ enqueued = {}

\* ----------------------------------------------------------------- main
\* tx_initial.send(base_url.to_string()).await
SendSeed ==
  /\ mainPc = "send_seed"
  /\ HasRoom(queue, capacity)
  /\ queue' = Append(queue, base_url)
  /\ mainPc' = "spawn"
  /\ UNCHANGED << nWorkers, capacity, spawned, closed, rxLock, visited, vLock,
                  pc, url, html, links, fetchDone, failed, succeeded, markedFirst,
                  markedAgain, enqueued >>

\* Mutant: main drops its Senders and closes the channel once the pool is
\* spawned, without waiting for the workers in flight.
SpawnThenClose ==
  /\ mainPc = "spawn"
  /\ spawned < nWorkers
  /\ spawned' = spawned + 1
  /\ pc' = [pc EXCEPT ![spawned + 1] = "rx_lock"]
  /\ mainPc' = IF spawned + 1 = nWorkers THEN "sleep" ELSE "spawn"
  /\ closed' = (spawned + 1 = nWorkers)
  /\ UNCHANGED << nWorkers, capacity, queue, rxLock, visited, vLock, url, html,
                  links, fetchDone, failed, succeeded, markedFirst,
                  markedAgain, enqueued >>

\* for _ in 0..workers { tokio::spawn(...) }, one iteration; after the last
\* one main enters loop { sleep(30s) }, which changes nothing.
Spawn ==
  /\ mainPc = "spawn"
  /\ spawned < nWorkers
  /\ spawned' = spawned + 1
  /\ pc' = [pc EXCEPT ![spawned + 1] = "rx_lock"]
  /\ mainPc' = IF spawned + 1 = nWorkers THEN "sleep" ELSE "spawn"
  /\ UNCHANGED << nWorkers, capacity, queue, closed, rxLock, visited, vLock,
                  url, html, links, fetchDone, failed, succeeded, markedFirst,
                  markedAgain, enqueued >>

\* ---------------------------------------------------------- worker loop
\* Mutant: the receiver is taken without waiting for its Mutex to be free.
RxLockUnguarded(w) ==
  /\ pc[w] = "rx_lock"
  /\ rxLock' = w
  /\ pc' = [pc EXCEPT ![w] = "recv"]
  /\ UNCHANGED << nWorkers, capacity, mainPc, spawned, queue, closed, visited,
                  vLock, url, html, links, fetchDone, failed, succeeded,
                  markedFirst, markedAgain, enqueued >>

\* let mut rx_locked = rx.lock().await;
RxLock(w) ==
  /\ pc[w] = "rx_lock"
  /\ rxLock = 0
  /\ rxLock' = w
  /\ pc' = [pc EXCEPT ![w] = "recv"]
  /\ UNCHANGED << nWorkers, capacity, mainPc, spawned, queue, closed, visited,
                  vLock, url, html, links, fetchDone, failed, succeeded, markedFirst,
                  markedAgain, enqueued >>

\* Mutant: the receiver guard is kept alive across process_url.
RecvKeepingGuard(w) ==
  /\ pc[w] = "recv"
  /\ (queue # << >> \/ closed)
  /\ IF queue # << >>
       THEN /\ url' = [url EXCEPT ![w] = Head(queue)]
            /\ queue' = Tail(queue)
            /\ pc' = [pc EXCEPT ![w] = "is_visited"]
       ELSE /\ pc' = [pc EXCEPT ![w] = "Terminated"]
            /\ UNCHANGED << url, queue >>
  /\ UNCHANGED << nWorkers, capacity, mainPc, spawned, closed, rxLock, visited,
                  vLock, html, links, fetchDone, failed, succeeded,
                  markedFirst, markedAgain, enqueued >>

\* rx_locked.recv().await, the guard dropped at the end of the block, and
\* the match: Some(url) enters process_url, None (closed and empty) breaks.
Recv(w) ==
  /\ pc[w] = "recv"
  /\ (queue # << >> \/ closed)
  /\ rxLock' = 0
  /\ IF queue # << >>
       THEN /\ url' = [url EXCEPT ![w] = Head(queue)]
            /\ queue' = Tail(queue)
            /\ pc' = [pc EXCEPT ![w] = "is_visited"]
       ELSE /\ pc' = [pc EXCEPT ![w] = "Terminated"]
            /\ UNCHANGED << url, queue >>
  /\ UNCHANGED << nWorkers, capacity, mainPc, spawned, closed, visited, vLock,
                  html, links, fetchDone, failed, succeeded, markedFirst, markedAgain,
                  enqueued >>

\* ---------------------------------------------------------- process_url
\* if self.is_visited(&url).await: self.visited.lock().await
IsVisited(w) ==
  /\ pc[w] = "is_visited"
  /\ vLock = 0
  /\ vLock' = w
  /\ pc' = [pc EXCEPT ![w] = "contains"]
  /\ UNCHANGED << nWorkers, capacity, mainPc, spawned, queue, closed, rxLock,
                  visited, url, html, links, fetchDone, failed, succeeded, markedFirst,
                  markedAgain, enqueued >>

\* Mutant: the admission check marks the URL, before any fetch.
ContainsAndMark(w) ==
  /\ pc[w] = "contains"
  /\ vLock' = 0
  /\ visited' = visited \cup {url[w]}
  /\ IF SetContains(visited, url[w])
       THEN /\ pc' = [pc EXCEPT ![w] = "rx_lock"]
            /\ url' = [url EXCEPT ![w] = NoUrl]
       ELSE /\ pc' = [pc EXCEPT ![w] = "fetch"]
            /\ UNCHANGED url
  /\ UNCHANGED << nWorkers, capacity, mainPc, spawned, queue, closed, rxLock,
                  html, links, fetchDone, failed, succeeded, markedFirst,
                  markedAgain, enqueued >>

\* Mutant: the guard of the admission check is kept alive into the fetch.
ContainsKeepingGuard(w) ==
  /\ pc[w] = "contains"
  /\ IF SetContains(visited, url[w])
       THEN /\ pc' = [pc EXCEPT ![w] = "rx_lock"]
            /\ url' = [url EXCEPT ![w] = NoUrl]
            /\ vLock' = 0
       ELSE /\ pc' = [pc EXCEPT ![w] = "fetch"]
            /\ UNCHANGED << url, vLock >>
  /\ UNCHANGED << nWorkers, capacity, mainPc, spawned, queue, closed, rxLock,
                  visited, html, links, fetchDone, failed, succeeded,
                  markedFirst, markedAgain, enqueued >>

\* .contains(url), the guard dropped; visited: return, else go on to fetch.
Contains(w) ==
  /\ pc[w] = "contains"
  /\ vLock' = 0
  /\ IF SetContains(visited, url[w])
       THEN /\ pc' = [pc EXCEPT ![w] = "rx_lock"]
            /\ url' = [url EXCEPT ![w] = NoUrl]
       ELSE /\ pc' = [pc EXCEPT ![w] = "fetch"]
            /\ UNCHANGED url
  /\ UNCHANGED << nWorkers, capacity, mainPc, spawned, queue, closed, rxLock,
                  visited, html, links, fetchDone, failed, succeeded, markedFirst,
                  markedAgain, enqueued >>

\* Mutant: a failed fetch puts the URL back on the queue for a retry.
FetchReturnRetry(w, r) ==
  /\ pc[w] = "fetch"
  /\ fetchDone' = [fetchDone EXCEPT ![url[w]] = @ + 1]
  /\ IF r.some
       THEN /\ html' = [html EXCEPT ![w] = r.val]
            /\ succeeded' = succeeded \cup {url[w]}
            /\ pc' = [pc EXCEPT ![w] = "mark_visited"]
            /\ UNCHANGED << url, failed, queue >>
       ELSE /\ failed' = failed \cup {url[w]}
            /\ queue' = IF Len(queue) < capacity THEN Append(queue, url[w]) ELSE queue
            /\ pc' = [pc EXCEPT ![w] = "rx_lock"]
            /\ url' = [url EXCEPT ![w] = NoUrl]
            /\ UNCHANGED << html, succeeded >>
  /\ UNCHANGED << nWorkers, capacity, mainPc, spawned, closed, rxLock,
                  visited, vLock, links, markedFirst, markedAgain, enqueued >>

\* self.fetch(url.clone()).await returning r: Some(html) goes on to
\* mark_visited, None leaves process_url.
FetchReturn(w, r) ==
  /\ pc[w] = "fetch"
  /\ fetchDone' = [fetchDone EXCEPT ![url[w]] = @ + 1]
  /\ IF r.some
       THEN /\ html' = [html EXCEPT ![w] = r.val]
            /\ succeeded' = succeeded \cup {url[w]}
            /\ pc' = [pc EXCEPT ![w] = "mark_visited"]
            /\ UNCHANGED << url, failed >>
       ELSE /\ failed' = failed \cup {url[w]}
            /\ pc' = [pc EXCEPT ![w] = "rx_lock"]
            /\ url' = [url EXCEPT ![w] = NoUrl]
            /\ UNCHANGED << html, succeeded >>
  /\ UNCHANGED << nWorkers, capacity, mainPc, spawned, queue, closed, rxLock,
                  visited, vLock, links, markedFirst, markedAgain, enqueued >>

Fetch(w) == \E r \in FetchOutcomes(url[w]) : FetchReturn(w, r)

\* let _ = self.mark_visited(&url).await: self.visited.lock().await
MarkVisited(w) ==
  /\ pc[w] = "mark_visited"
  /\ vLock = 0
  /\ vLock' = w
  /\ pc' = [pc EXCEPT ![w] = "insert"]
  /\ UNCHANGED << nWorkers, capacity, mainPc, spawned, queue, closed, rxLock,
                  visited, url, html, links, fetchDone, failed, succeeded, markedFirst,
                  markedAgain, enqueued >>

\* .insert(url.to_string()), the guard dropped, then
\* self.extract_links(&html, &url) starting the for loop.
Insert(w) ==
  LET found == ExtractLinks(html[w], url[w]) IN
  /\ pc[w] = "insert"
  /\ vLock' = 0
  /\ visited' = SetInsert(visited, url[w])
  /\ IF InsertResult(visited, url[w])
       THEN /\ markedFirst' = [markedFirst EXCEPT ![url[w]] = @ + 1]
            /\ UNCHANGED markedAgain
       ELSE /\ markedAgain' = [markedAgain EXCEPT ![url[w]] = @ + 1]
            /\ UNCHANGED markedFirst
  /\ links' = [links EXCEPT ![w] = found]
  /\ html' = [html EXCEPT ![w] = << >>]
  /\ pc' = [pc EXCEPT ![w] = AfterLink(found)]
  /\ url' = [url EXCEPT ![w] = IF found = << >> THEN NoUrl ELSE @]
  /\ UNCHANGED << nWorkers, capacity, mainPc, spawned, queue, closed, rxLock,
                  fetchDone, failed, succeeded, enqueued >>

\* if !self.is_visited(&link).await: self.visited.lock().await
LinkIsVisited(w) ==
  /\ pc[w] = "link_is_visited"
  /\ vLock = 0
  /\ vLock' = w
  /\ pc' = [pc EXCEPT ![w] = "link_contains"]
  /\ UNCHANGED << nWorkers, capacity, mainPc, spawned, queue, closed, rxLock,
                  visited, url, html, links, fetchDone, failed, succeeded, markedFirst,
                  markedAgain, enqueued >>

\* .contains(link), the guard dropped; a visited link is skipped, any other
\* goes on to tx.send.
LinkContains(w) ==
  LET rest == Tail(links[w]) IN
  /\ pc[w] = "link_contains"
  /\ vLock' = 0
  /\ IF SetContains(visited, Head(links[w]))
       THEN /\ links' = [links EXCEPT ![w] = rest]
            /\ pc' = [pc EXCEPT ![w] = AfterLink(rest)]
            /\ url' = [url EXCEPT ![w] = IF rest = << >> THEN NoUrl ELSE @]
       ELSE /\ pc' = [pc EXCEPT ![w] = "send"]
            /\ UNCHANGED << links, url >>
  /\ UNCHANGED << nWorkers, capacity, mainPc, spawned, queue, closed, rxLock,
                  visited, html, fetchDone, failed, succeeded, markedFirst, markedAgain,
                  enqueued >>

\* tx.send(link).await.expect("Failed to send link"): suspended while the
\* channel is full; an Err (channel closed) panics the task.
Send(w) ==
  LET rest == Tail(links[w]) IN
  /\ pc[w] = "send"
  /\ (HasRoom(queue, capacity) \/ closed)
  /\ IF closed
       THEN /\ pc' = [pc EXCEPT ![w] = "panicked"]
            /\ UNCHANGED << queue, links, url, enqueued >>
       ELSE /\ queue' = Append(queue, Head(links[w]))
            /\ enqueued' = enqueued \cup {Head(links[w])}
            /\ links' = [links EXCEPT ![w] = rest]
            /\ pc' = [pc EXCEPT ![w] = AfterLink(rest)]
            /\ url' = [url EXCEPT ![w] = IF rest = << >> THEN NoUrl ELSE @]
  /\ UNCHANGED << nWorkers, capacity, mainPc, spawned, closed, rxLock, visited,
                  vLock, html, fetchDone, failed, succeeded, markedFirst, markedAgain >>

\* ------------------------------------------------------- specifications
WorkerStep(w) ==
  \/ RxLock(w)
  \/ Recv(w)
  \/ IsVisited(w)
  \/ Contains(w)
  \/ Fetch(w)
  \/ MarkVisited(w)
  \/ Insert(w)
  \/ LinkIsVisited(w)
  \/ LinkContains(w)
  \/ Send(w)

Next ==
  \/ SendSeed
  \/ Spawn
  \/ \E w \in Workers : WorkerStep(w)

Spec == Init /\ [][Next]_vars

\* The runtime keeps running every task that can run, and both Mutexes and
\* the channel hand out turns in arrival order, so no task that is able to
\* proceed again and again waits forever.
FairSpec ==
  /\ Spec
  /\ WF_vars(SendSeed)
  /\ WF_vars(Spawn)
  /\ \A w \in Workers : SF_vars(WorkerStep(w))

\* ------------------------------------------------------ derived notions
\* Number of times fetch has been invoked for u: the calls that returned
\* plus the calls still awaiting their response.
Fetches(u) ==
  fetchDone[u] + Cardinality({w \in Workers : pc[w] = "fetch" /\ url[w] = u})

\* The None that fetch returns on an error status or a transport error.
FetchNone == [some |-> FALSE, val |-> << >>]

\* The elements of a sequence.
Range(seq) == {seq[i] : i \in 1..Len(seq)}

\* The in-domain links of the page a successful fetch of u returns.
LinksOf(u) == Range(ExtractLinks(Document(UrlParse(u)), u))

\* The seed and every link of a page that has been fetched successfully
\* and marked.
Reached == {base_url} \cup UNION {LinksOf(u) : u \in visited}

\* The spawned workers.
Pool == 1..spawned

\* C1: no duplicate fetch: fetch is invoked at most once per URL string.
NoDuplicateFetch == \A u \in Urls : Fetches(u) <= 1

\* The crawl is drained (Quiescent) and shut down (Completed).
Quiescent ==
  /\ mainPc = "sleep"
  /\ queue = << >>
  /\ \A w \in Pool : pc[w] \in {"rx_lock", "recv"}
Completed ==
  /\ closed
  /\ \A w \in 1..nWorkers : pc[w] = "Terminated"
  /\ mainPc = "returned"
\* C2: termination: once the queue is empty and no worker is processing a
\* URL, the queue gets closed, every worker leaves its loop and main returns.
Termination == Quiescent ~> Completed

\* Only URLs reached so far have been fetched.
NoFetchOutside == \A u \in Urls : Fetches(u) > 0 => u \in Reached
\* C3: coverage: every URL reached through links of successfully fetched
\* pages is eventually fetched, and nothing outside that set is fetched.
Coverage ==
  /\ []NoFetchOutside
  /\ \A u \in Urls : (u \in Reached) ~> (fetchDone[u] > 0)

\* C4: backpressure safety: every link a worker has extracted is eventually
\* dealt with, by being found visited or by being placed on the queue.
NoLinkLost == \A w \in Workers : (links[w] # << >>) ~> (links[w] = << >>)

\* Worker w is at tx.send and the queue is full.
BlockedOnSend(w) == pc[w] = "send" /\ Len(queue) = capacity
\* C5: bounded frontier: the queue never holds more than capacity entries,
\* and a worker at send with the queue full stays there, nothing being
\* added to the queue, in every step until a dequeue has made room.
BoundedFrontier ==
  /\ [](Len(queue) <= capacity)
  /\ [][\A w \in Workers : BlockedOnSend(w) =>
          /\ pc'[w] = "send"
          /\ links'[w] = links[w]
          /\ Len(queue') <= Len(queue)]_vars
BoundedFrontierWitness == \E w \in Workers : BlockedOnSend(w)

\* C6: domain containment: every URL a worker enqueues, and so every queue
\* entry but the seed and every URL fetched, has exactly the seed's domain.
DomainContainment ==
  /\ \A u \in enqueued : u.dom = SeedDomain
  /\ \A i \in 1..Len(queue) : queue[i] = base_url \/ queue[i] \in enqueued
  /\ \A u \in Urls : Fetches(u) > 0 => u.dom = SeedDomain
DomainContainmentWitness ==
  /\ [dom |-> SeedDomain, path |-> "/b"] \in enqueued
  /\ fetchDone[[dom |-> SeedDomain, path |-> "/a"]] > 0

\* C7: no retry after failure: a URL whose fetch failed is in the visited
\* set, was inserted exactly once and is not fetched a second time.
NoRetryAfterFailure ==
  \A u \in failed : u \in visited /\ markedFirst[u] = 1 /\ Fetches(u) = 1

\* The step in which worker w's fetch returns None.
FetchFailed(w) == pc[w] = "fetch" /\ pc'[w] \notin {"fetch", "mark_visited"}
ExactlyOneFirst ==
  \A u \in Urls :
    /\ markedFirst[u] <= 1
    /\ markedFirst[u] + markedAgain[u] > 0 => markedFirst[u] = 1 /\ u \in visited
MarkReturned(w) == pc[w] = "insert" /\ pc'[w] # "insert"
\* C9: linearizable test-and-set: of the mark_visited calls for one URL
\* exactly one returns true, every call leaves the URL in the set, and a
\* call changes nothing about any other URL.
LinearizableTestAndSet ==
  /\ []ExactlyOneFirst
  /\ [][\A w \in Workers : MarkReturned(w) =>
          /\ url[w] \in visited'
          /\ (markedFirst'[url[w]] = markedFirst[url[w]] + 1) <=> (url[w] \notin visited)
          /\ \A u \in Urls \ {url[w]} :
               /\ (u \in visited') <=> (u \in visited)
               /\ markedFirst'[u] = markedFirst[u]
               /\ markedAgain'[u] = markedAgain[u]]_vars
LinearizableTestAndSetWitness == \E u \in Urls : markedAgain[u] >= 1

\* C10: visited set monotonicity: no step removes a URL from the set.
VisitedMonotone == [][visited \subseteq visited']_vars
VisitedMonotoneWitness == Cardinality(visited) >= 2

\* The positions at which a worker holds the visited lock: between the
\* lock().await and the end of the contains or insert statement.
UnderVisitedLock == {"contains", "insert", "link_contains"}
\* C11: lock scope: the holder of the visited lock is inside one contains
\* or insert, never awaiting a fetch response nor suspended on an enqueue,
\* and its next step releases the lock.
LockScope ==
  /\ [](\A w \in Workers :
          /\ vLock = w => pc[w] \in UnderVisitedLock
          /\ pc[w] \in {"fetch", "send"} => vLock # w)
  /\ [][\A w \in Workers : (vLock = w /\ pc'[w] # pc[w]) => vLock' = 0]_vars
LockScopeWitness ==
  \E w, v \in Workers : vLock = w /\ pc[v] = "fetch"

\* C12: mark before fetch: a URL whose fetch is in progress is already in
\* the visited set.
MarkBeforeFetch == \A w \in Workers : pc[w] = "fetch" => url[w] \in visited

\* C13: deadlock freedom of enqueue: the workers of the pool are never all
\* suspended on an enqueue to a full queue.
NoEnqueueDeadlock == ~(\A w \in 1..nWorkers : BlockedOnSend(w))

\* The positions of a worker between dequeuing a URL and finishing it.
Processing ==
  {"is_visited", "contains", "fetch", "mark_visited", "insert",
   "link_is_visited", "link_contains", "send"}
\* C14: no send to a closed queue: the queue is open whenever a worker is
\* processing a URL, no worker's send fails (no task panics), and a worker
\* leaves its send only by having put the link on the queue.
NoSendToClosed ==
  /\ [](\A w \in Workers :
          /\ pc[w] \in Processing => ~closed
          /\ pc[w] # "panicked")
  /\ [][\A w \in Workers : (pc[w] = "send" /\ pc'[w] # "send") =>
          queue' = Append(queue, Head(links[w]))]_vars
NoSendToClosedWitness ==
  /\ queue = << >>
  /\ enqueued # {}
  /\ \E w \in Workers : pc[w] = "send"

\* Worker w has dequeued a URL that is in the visited set and has not yet
\* finished the admission check on it.
HoldsVisitedUrl(w) == pc[w] \in {"is_visited", "contains"} /\ url[w] \in visited
\* C15: discard of visited URLs: the steps a worker takes on a dequeued URL
\* that is already visited end at the top of its loop without a fetch or
\* an enqueue, and leave the visited set and the queue as they were.
DiscardVisited ==
  [][\A w \in Workers : (HoldsVisitedUrl(w) /\ pc'[w] # pc[w]) =>
       /\ pc'[w] = IF pc[w] = "is_visited" THEN "contains" ELSE "rx_lock"
       /\ queue' = queue
       /\ visited' = visited
       /\ enqueued' = enqueued
       /\ fetchDone' = fetchDone
       /\ links'[w] = << >>]_vars
DiscardVisitedWitness ==
  \E w \in Workers : pc[w] = "contains" /\ url[w] \in visited /\ queue # << >>

\* The positions of the page's hrefs that resolve into the seed's domain,
\* and the i-th of them in document order.
InDomainPositions(doc, base) ==
  {p \in 1..Len(doc) :
     JoinOk(base, doc[p]) /\ UrlJoin(base, doc[p]).dom = SeedDomain}
NthInDomain(doc, base, i) ==
  CHOOSE p \in InDomainPositions(doc, base) :
    Cardinality({q \in InDomainPositions(doc, base) : q <= p}) = i
\* The links worker w still has to offer are the last Len(links[w]) of its
\* page's in-domain hrefs, one per occurrence, in document order.
InDocumentOrder(w) ==
  LET base == UrlParse(url[w])
      doc == Document(base)
      n == Cardinality(InDomainPositions(doc, base))
      k == Len(links[w])
  IN  /\ k <= n
      /\ \A i \in 1..k :
           links[w][i] = UrlJoin(base, doc[NthInDomain(doc, base, n - k + i)])
\* C16: per-page document order: a worker's for loop starts with every
\* in-domain href of the page, one entry per occurrence in document order,
\* deals with the first remaining link only (skipping it as visited or
\* appending it to the queue's end) before the next one, and the queue
\* changes only by losing its head or gaining an entry at its end.
DocumentOrder ==
  /\ [](\A w \in Workers : links[w] # << >> => InDocumentOrder(w))
  /\ [][\A w \in Workers :
          /\ (links[w] = << >> /\ links'[w] # << >>) =>
               Len(links'[w]) =
                 Cardinality(InDomainPositions(Document(UrlParse(url[w])),
                                               UrlParse(url[w])))
          /\ (links[w] # << >> /\ links'[w] # links[w]) =>
               /\ links'[w] = Tail(links[w])
               /\ pc[w] \in {"link_contains", "send"}
               /\ pc[w] = "link_contains" =>
                    Head(links[w]) \in visited /\ queue' = queue
               /\ pc[w] = "send" => queue' = Append(queue, Head(links[w]))]_vars
  /\ [][queue' # queue =>
          \/ queue # << >> /\ queue' = Tail(queue)
          \/ /\ Len(queue') = Len(queue) + 1
             /\ SubSeq(queue', 1, Len(queue)) = queue]_vars
DocumentOrderWitness ==
  /\ queue = << [dom |-> SeedDomain, path |-> "/a"],
                [dom |-> SeedDomain, path |-> "/a"] >>
  /\ \E w \in Workers : links[w] = << [dom |-> SeedDomain, path |-> "/b"] >>

\* C17: the visited set holds only URLs for which a fetch has returned
\* successfully, so none that is only queued, none whose fetches all
\* failed and none being fetched for the first time; a URL enters the set
\* only in the insert of a worker holding a successful response for it.
OnlyFetchedAreVisited ==
  /\ [](/\ visited \subseteq succeeded
        /\ \A u \in Urls : fetchDone[u] = 0 => u \notin visited
        /\ \A u \in failed \ succeeded : u \notin visited)
  /\ [][visited' # visited =>
          \E w \in Workers :
            /\ pc[w] = "insert"
            /\ url[w] \in succeeded
            /\ visited' = visited \cup {url[w]}]_vars
OnlyFetchedAreVisitedWitness ==
  /\ visited # {}
  /\ \E u \in failed \ succeeded : u \notin visited
  /\ \E w \in Workers :
       pc[w] = "fetch" /\ fetchDone[url[w]] = 0 /\ url[w] \notin visited

\* No worker can take a step; every worker of the pool is waiting to
\* dequeue from the empty queue; every worker of the pool is suspended on
\* an enqueue to the full queue.
WorkersStuck == \A w \in Workers : ~ENABLED WorkerStep(w)
AllWaitingToDequeue ==
  queue = << >> /\ \A w \in Pool : pc[w] \in {"rx_lock", "recv"}
AllBlockedOnSend == \A w \in Pool : BlockedOnSend(w)
\* C18: once a worker is running, the states in which no worker can take a
\* step are those with the queue empty and every worker waiting to dequeue
\* and those with the queue full and every worker suspended on an enqueue.
OnlyTwoStuckShapes ==
  (Pool # {} /\ WorkersStuck) => (AllWaitingToDequeue \/ AllBlockedOnSend)
OnlyTwoStuckShapesWitness ==
  spawned = 2 /\ mainPc = "sleep" /\ WorkersStuck /\ AllBlockedOnSend

\* The number of fetch calls made so far, over all URLs.
RECURSIVE SumOver(_, _)
SumOver(f, S) ==
  IF S = {} THEN 0
  ELSE LET x == CHOOSE y \in S : TRUE IN f[x] + SumOver(f, S \ {x})
FetchTotal ==
  SumOver(fetchDone, Urls) + Cardinality({w \in Workers : pc[w] = "fetch"})
\* The URL strings of the seed's domain, and the most links one page yields.
InDomainUrls == {u \in Urls : u.dom = SeedDomain}
MaxLinksPerPage ==
  CHOOSE n \in 0..Len(HomePage) :
    /\ \E u \in InDomainUrls : Len(ExtractLinks(Document(UrlParse(u)), u)) = n
    /\ \A u \in InDomainUrls : Len(ExtractLinks(Document(UrlParse(u)), u)) <= n
\* A worker fetches a URL successfully at most once (it marks it right
\* after), every queue entry but the seed stems from a successful fetch, and
\* every fetch consumes a queue entry.
FetchBound == 1 + MaxLinksPerPage * Cardinality(InDomainUrls) * nWorkers
\* C19: finitely many fetches: on this cyclic site with a failing page the
\* number of fetch calls never exceeds a bound fixed by the site and the
\* pool size, so every execution stops starting fetches.
FiniteFetches == FetchTotal <= FetchBound
FiniteFetchesWitness ==
  /\ fetchDone[[dom |-> SeedDomain, path |-> "/b"]] >= 2
  /\ fetchDone[[dom |-> SeedDomain, path |-> "/"]] >= 1
  /\ mainPc = "sleep" /\ WorkersStuck

\* C20: receiver lock: the worker at recv, and no other, holds the
\* receiver lock (so at most one worker is at recv and none holds the lock
\* while checking, marking, fetching or sending); leaving recv releases
\* the lock; and whenever the queue loses an entry, it is its head, handed
\* to exactly one worker, which enters process_url with it.
ReceiverLockScope ==
  /\ [](\A w \in Workers : rxLock = w <=> pc[w] = "recv")
  /\ [][\A w \in Workers : (pc[w] = "recv" /\ pc'[w] # "recv") => rxLock' = 0]_vars
  /\ [][Len(queue') < Len(queue) =>
          \E w \in Workers :
            /\ rxLock = w
            /\ pc'[w] = "is_visited"
            /\ url'[w] = Head(queue)
            /\ queue' = Tail(queue)
            /\ \A v \in Workers \ {w} : url'[v] = url[v] /\ pc'[v] = pc[v]]_vars
ReceiverLockScopeWitness ==
  \E w, v \in Workers : rxLock = w /\ queue = << >> /\ pc[v] = "fetch"

====
